---- MODULE Spec2Model ----
(***************************************************************************)
(* Model of the honeypot service of src/main.py: the key check             *)
(* (validate_api_key), the request handler (universal_handler), the entity *)
(* extractor (extract_intelligence) and the scorer (analyze_scam_intent).  *)
(*                                                                         *)
(* A Python str is a sequence of one-character strings.  A Python float is *)
(* an IEEE-754 double, held exactly as a multiple of 2^-56 in four limbs   *)
(* of 15 bits, least significant first; every float operation rounds to 53 *)
(* significant bits, ties to even, as the hardware does.                   *)
(***************************************************************************)
EXTENDS Integers, Sequences, FiniteSets, TLC

VARIABLES
  req,           \* the service: per connection slot, the request in flight
  text,          \* scorer call: argument text
  extracted_data,\* scorer call: argument extracted_data
  keyword_hits,  \* scorer call: the local keyword_hits of line 77
  result,        \* scorer call: the returned (is_scam, confidence)
  ex_text,       \* extractor call: argument text
  ex_result,     \* extractor call: the returned dict
  pc             \* which of the three is running, and how far a call has got

vars == <<req, text, extracted_data, keyword_hits, result, ex_text, ex_result, pc>>

\* ------------------------------------------------------------ characters

Digits == {"0", "1", "2", "3", "4", "5", "6", "7", "8", "9"}

LowerCase ==
  <<"a", "b", "c", "d", "e", "f", "g", "h", "i", "j", "k", "l", "m",
    "n", "o", "p", "q", "r", "s", "t", "u", "v", "w", "x", "y", "z">>

UpperCase ==
  <<"A", "B", "C", "D", "E", "F", "G", "H", "I", "J", "K", "L", "M",
    "N", "O", "P", "Q", "R", "S", "T", "U", "V", "W", "X", "Y", "Z">>

Range(s) == {s[i] : i \in DOMAIN s}

UpperChars == Range(UpperCase)

Alpha == Range(LowerCase) \cup UpperChars

\* \w of the re module: letters, digits and the underscore.
WordChars == Alpha \cup Digits \cup {"_"}

IsWord(c) == c \in WordChars

\* The characters str.strip() removes.
SpaceChars == {" ", "\t", "\n", "\r"}

IsSpace(c) == c \in SpaceChars

\* str.lower(), one character.
LowerChar(c) ==
  IF c \in UpperChars
    THEN LowerCase[CHOOSE i \in DOMAIN UpperCase : UpperCase[i] = c]
    ELSE c

\* str.lower()
StrLower(s) == [i \in DOMAIN s |-> LowerChar(s[i])]

\* text.strip() is empty: every character is whitespace.
StripIsEmpty(s) == \A i \in DOMAIN s : IsSpace(s[i])

\* word in text: word occurs as a contiguous substring.
Contains(word, s) ==
  \E off \in 0..(Len(s) - Len(word)) :
    \A i \in DOMAIN word : s[off + i] = word[i]

\* ---------------------------------------------------------------- floats

Base == 2^15

\* Exact sum of two limb sequences of the same length (carry propagated).
RECURSIVE AddLimbs(_, _, _)
AddLimbs(a, b, carry) ==
  IF a = <<>> THEN <<>>
  ELSE LET t == Head(a) + Head(b) + carry
       IN  <<t % Base>> \o AddLimbs(Tail(a), Tail(b), t \div Base)

\* Exact product of a limb sequence and a small natural number.
RECURSIVE MulLimbs(_, _, _)
MulLimbs(a, k, carry) ==
  IF a = <<>> THEN <<>>
  ELSE LET t == Head(a) * k + carry
       IN  <<t % Base>> \o MulLimbs(Tail(a), k, t \div Base)

\* a < b, comparing from the most significant limb.
RECURSIVE LessLimbs(_, _)
LessLimbs(a, b) ==
  IF a = <<>> THEN FALSE
  ELSE LET n == Len(a)
       IN  \/ a[n] < b[n]
           \/ a[n] = b[n] /\ LessLimbs(SubSeq(a, 1, n - 1), SubSeq(b, 1, n - 1))

\* The spacing of doubles around x, in units of 2^-56: 53 significant bits.
Ulp(x) ==
  IF x[4] < 256 THEN 1
  ELSE IF x[4] < 512 THEN 2
  ELSE IF x[4] < 1024 THEN 4
  ELSE IF x[4] < 2048 THEN 8
  ELSE 16

\* Round an exact value to the nearest double, ties to even.
RoundToDouble(x) ==
  LET u    == Ulp(x)
      q    == x[1] % u
      odd  == (x[1] \div u) % 2 = 1
      up   == 2 * q > u \/ (2 * q = u /\ odd)
      down == [x EXCEPT ![1] = x[1] - q]
  IN  IF q = 0 THEN x
      ELSE IF up THEN AddLimbs(down, <<u, 0, 0, 0>>, 0)
      ELSE down

\* The float literals of the program.
F0_0 == <<0, 0, 0, 0>>                  \* 0.0
F0_1 == <<6554, 13107, 26214, 204>>     \* 0.1 = 0x1.999999999999ap-4
F0_3 == <<19660, 6553, 13107, 614>>     \* 0.3 = 0x1.3333333333333p-2
F0_4 == <<26216, 19660, 6553, 819>>     \* 0.4 = 0x1.999999999999ap-2
F1_0 == <<0, 0, 0, 2048>>               \* 1.0

\* a + b on floats
FAdd(a, b) == RoundToDouble(AddLimbs(a, b, 0))

\* k * a for an int k and a float a
FMulInt(k, a) == RoundToDouble(MulLimbs(a, k, 0))

\* a > b on floats
FGreater(a, b) == LessLimbs(b, a)

\* min(a, b) on floats
FMin(a, b) == IF LessLimbs(b, a) THEN b ELSE a

\* round(x, 2): the decimal n/100 nearest the exact value of x, ties to even.
\* The float returned is the double nearest n/100, which is the double the
\* literal n/100 denotes; it is identified by n, the number of hundredths.
Round2(x) ==
  LET y    == MulLimbs(x \o <<0>>, 100, 0)      \* x * 100, in units of 2^-56
      n    == (y[4] \div 2048) + y[5] * 16      \* y div 2^56
      rem  == <<y[1], y[2], y[3], y[4] % 2048>> \* y mod 2^56
      half == <<0, 0, 0, 1024>>                 \* 2^55
  IN  IF LessLimbs(half, rem) THEN n + 1
      ELSE IF rem = half /\ n % 2 = 1 THEN n + 1
      ELSE n

\* ------------------------------------------------------------- extractor

\* The character at 1-based position p, or "" outside the string.
CharAt(s, p) == IF p \in DOMAIN s THEN s[p] ELSE ""

\* The number of consecutive characters of s from position p on that lie in
\* chars, at most cap: a greedy bounded repetition of a character class.
RECURSIVE RunLen(_, _, _, _)
RunLen(s, p, chars, cap) ==
  IF cap = 0 \/ CharAt(s, p) \notin chars THEN 0
  ELSE 1 + RunLen(s, p + 1, chars, cap - 1)

\* \b before position p: exactly one of the two neighbours is a \w character.
WordBoundary(s, p) == IsWord(CharAt(s, p - 1)) # IsWord(CharAt(s, p))

\* The end (exclusive) of the match a greedy pattern finds when the lengths
\* in ends are the ones at which it can complete: the longest, or 0 for none.
Longest(ends) == IF ends = {} THEN 0 ELSE CHOOSE e \in ends : \A f \in ends : f <= e

BankMinDigits == 9
BankMaxDigits == 18

\* Faulty variant: the closing \b is left out, so a longer run is truncated.
BankMatchEndUnanchored(s, p) ==
  IF ~WordBoundary(s, p) THEN 0
  ELSE LET k == RunLen(s, p, Digits, BankMaxDigits)
       IN  Longest({p + n : n \in BankMinDigits..k})

\* bank_account_pattern = r'\b\d{9,18}\b' matched at position p.
BankMatchEnd(s, p) ==
  IF ~WordBoundary(s, p) THEN 0
  ELSE LET k == RunLen(s, p, Digits, BankMaxDigits)
       IN  Longest({p + n : n \in {m \in BankMinDigits..k : WordBoundary(s, p + m)}})

UpiLocalChars == Alpha \cup Digits \cup {".", "-", "_"}

UpiMinLocal == 2
UpiMaxLocal == 256
UpiMinDomain == 2
UpiMaxDomain == 64

\* upi_pattern = r'[a-zA-Z0-9.\-_]{2,256}@[a-zA-Z]{2,64}' matched at position p.
UpiMatchEnd(s, p) ==
  LET k == RunLen(s, p, UpiLocalChars, UpiMaxLocal)
      domain(n) == RunLen(s, p + n + 1, Alpha, UpiMaxDomain)
  IN  Longest({p + n + 1 + domain(n) :
                 n \in {m \in UpiMinLocal..k :
                          CharAt(s, p + m) = "@" /\ domain(m) >= UpiMinDomain}})

UrlHostChars == Alpha \cup Digits \cup {"_", "-", "."}

HexChars == Digits \cup {"a", "b", "c", "d", "e", "f", "A", "B", "C", "D", "E", "F"}

UrlPathChars ==
  Alpha \cup Digits \cup
  {"-", ".", "_", "~", ":", "/", "?", "#", "[", "]", "@", "!", "$", "&", "'",
   "(", ")", "*", "+", ",", ";", "="}

\* s holds the literal lit at position p.
LiteralAt(s, p, lit) == \A i \in DOMAIN lit : CharAt(s, p + i - 1) = lit[i]

\* (?:[-\w.]|(?:%[\da-fA-F]{2}))* from position p: where the greedy loop stops.
RECURSIVE UrlHostEnd(_, _)
UrlHostEnd(s, p) ==
  IF CharAt(s, p) \in UrlHostChars THEN UrlHostEnd(s, p + 1)
  ELSE IF /\ CharAt(s, p) = "%"
          /\ CharAt(s, p + 1) \in HexChars
          /\ CharAt(s, p + 2) \in HexChars THEN UrlHostEnd(s, p + 3)
  ELSE p

\* url_pattern = r'https?://(?:[-\w.]|(?:%[\da-fA-F]{2}))+(?:/[...]*)?'
\* matched at position p.
UrlMatchEnd(s, p) ==
  LET scheme == <<"h", "t", "t", "p">>
      sep    == <<":", "/", "/">>
      host   == IF ~LiteralAt(s, p, scheme) THEN 0
                ELSE IF CharAt(s, p + 4) = "s" /\ LiteralAt(s, p + 5, sep) THEN p + 8
                ELSE IF LiteralAt(s, p + 4, sep) THEN p + 7
                ELSE 0
      e      == UrlHostEnd(s, host)
  IN  IF host = 0 \/ e = host THEN 0
      ELSE IF CharAt(s, e) = "/" THEN e + 1 + RunLen(s, e + 1, UrlPathChars, Len(s))
      ELSE e

\* Where the named pattern's match at position p ends (exclusive); 0: no match.
MatchEnd(pattern, s, p) ==
  CASE pattern = "upi_pattern"          -> UpiMatchEnd(s, p)
    [] pattern = "bank_account_pattern" -> BankMatchEnd(s, p)
    [] pattern = "url_pattern"          -> UrlMatchEnd(s, p)

\* re.findall(pattern, text): the non-overlapping matches, scanning from the
\* left; after a match the scan resumes where it ended.
RECURSIVE FindAllFrom(_, _, _)
FindAllFrom(pattern, s, p) ==
  IF p > Len(s) THEN <<>>
  ELSE LET e == MatchEnd(pattern, s, p)
       IN  IF e = 0 THEN FindAllFrom(pattern, s, p + 1)
           ELSE <<SubSeq(s, p, e - 1)>> \o FindAllFrom(pattern, s, e)

FindAll(pattern, s) == FindAllFrom(pattern, s, 1)

\* list(set(matches)): the distinct matches; the list's order is not modelled.
ListOfSet(matches) == Range(matches)

\* extract_intelligence(text) -> dict
extract_intelligence(t) ==
  IF t = <<>> THEN [upi_ids |-> {}, bank_accounts |-> {}, phishing_links |-> {}]
  ELSE [upi_ids        |-> ListOfSet(FindAll("upi_pattern", t)),
        bank_accounts  |-> ListOfSet(FindAll("bank_account_pattern", t)),
        phishing_links |-> ListOfSet(FindAll("url_pattern", t))]

\* ---------------------------------------------------------------- scorer

scam_keywords ==
  << <<"u", "r", "g", "e", "n", "t">>,
     <<"w", "i", "n", "n", "e", "r">>,
     <<"l", "o", "t", "t", "e", "r", "y">>,
     <<"c", "o", "n", "g", "r", "a", "t", "u", "l", "a", "t", "i", "o", "n", "s">>,
     <<"w", "o", "n">>,
     <<"p", "r", "i", "z", "e">>,
     <<"v", "e", "r", "i", "f", "y">>,
     <<"k", "y", "c">>,
     <<"b", "l", "o", "c", "k", "e", "d">>,
     <<"a", "c", "c", "o", "u", "n", "t">>,
     <<"e", "x", "p", "i", "r", "e">>,
     <<"o", "t", "p">>,
     <<"p", "a", "s", "s", "w", "o", "r", "d">>,
     <<"c", "r", "e", "d", "e", "n", "t", "i", "a", "l">>,
     <<"r", "e", "f", "u", "n", "d">>,
     <<"d", "e", "p", "o", "s", "i", "t">>,
     <<"i", "n", "v", "e", "s", "t", "m", "e", "n", "t">>,
     <<"s", "c", "h", "e", "m", "e">>,
     <<"d", "o", "u", "b", "l", "e">>,
     <<"c", "l", "i", "c", "k", " ", "h", "e", "r", "e">>,
     <<"l", "i", "m", "i", "t", "e", "d", " ", "t", "i", "m", "e">>,
     <<"a", "c", "t", " ", "n", "o", "w">>,
     <<"a", "c", "t", "i", "o", "n", " ", "r", "e", "q", "u", "i", "r", "e", "d">> >>

\* word in text_lower, for one list entry
WordInText(word, text_lower) == Contains(word, text_lower)

\* sum(1 for word in words if word in text_lower)
RECURSIVE SumHits(_, _)
SumHits(words, text_lower) ==
  IF words = <<>> THEN 0
  ELSE (IF WordInText(Head(words), text_lower) THEN 1 ELSE 0)
       + SumHits(Tail(words), text_lower)

\* Faulty variant: the keywords are sought in the text as written.
KeywordHitsCaseSensitive(t) == SumHits(scam_keywords, t)

\* keyword_hits = sum(1 for word in scam_keywords if word in text_lower),
\* with text_lower = text.lower()
KeywordHits(t) == SumHits(scam_keywords, StrLower(t))

\* min(keyword_hits, 5)
CappedHits(h) == IF h < 5 THEN h ELSE 5

\* Faulty variant: a base of 0.4 instead of 0.3.
AfterKeywordsHighBase(score, h) ==
  IF h > 0 THEN FAdd(score, FAdd(F0_4, FMulInt(CappedHits(h), F0_1)))
  ELSE score

\* if keyword_hits > 0: score += 0.3 + (min(keyword_hits, 5) * 0.1)
AfterKeywords(score, h) ==
  IF h > 0 THEN FAdd(score, FAdd(F0_3, FMulInt(CappedHits(h), F0_1)))
  ELSE score

\* if extracted_data.get("phishing_links"): score += 0.4
AfterLinks(score, ed) ==
  IF ed.phishing_links # {} THEN FAdd(score, F0_4) ELSE score

\* Faulty variant: 0.3 for the payment handles and 0.3 for the bank accounts.
AfterPaymentTwice(score, ed) ==
  LET a == IF ed.upi_ids # {} THEN FAdd(score, F0_3) ELSE score
  IN  IF ed.bank_accounts # {} THEN FAdd(a, F0_3) ELSE a

\* if extracted_data.get("upi_ids") or extracted_data.get("bank_accounts"):
\*     score += 0.3
AfterPayment(score, ed) ==
  IF ed.upi_ids # {} \/ ed.bank_accounts # {} THEN FAdd(score, F0_3) ELSE score

\* The raw score of lines 78-86.
Score(h, ed) == AfterPayment(AfterLinks(AfterKeywords(F0_0, h), ed), ed)

\* Faulty variant: only the empty text short-circuits.
IsEmptyOnly(t) == t = <<>>

\* if not text or not text.strip()
IsBlank(t) == t = <<>> \/ StripIsEmpty(t)

\* Faulty variant: >= instead of >.
IsScamAtLeast(confidence) == ~LessLimbs(confidence, F0_4)

\* is_scam = confidence > 0.4
IsScam(confidence) == FGreater(confidence, F0_4)

\* analyze_scam_intent(text, extracted_data) -> (is_scam, confidence)
analyze_scam_intent(t, ed) ==
  IF IsBlank(t) THEN [is_scam |-> FALSE, confidence |-> 0]
  ELSE LET confidence == FMin(Score(KeywordHits(t), ed), F1_0)
       IN  [is_scam |-> IsScam(confidence), confidence |-> Round2(confidence)]

\* --------------------------------------------------------------- service

API_KEY_VALUE ==
  <<"A", "I", "I", "H", "B", "-", "2", "0", "2", "6", "-", "S", "E", "C", "R", "E", "T">>

\* What json.loads yields.  Python's None is JNull.
JNull == [type |-> "null"]
JNumber == [type |-> "number"]
JArray == [type |-> "array"]
JString(chars) == [type |-> "string", chars |-> chars]
JObject(fields) == [type |-> "object", fields |-> fields]

\* isinstance(v, str)
IsStr(v) == v.type = "string"

\* isinstance(body, dict)
IsDict(v) == v.type = "object"

\* body.get(key)
DictGet(v, key) == IF key \in DOMAIN v.fields THEN v.fields[key] ELSE JNull

\* A lone surrogate code point, which json.loads accepts in a \uXXXX escape
\* and which no UTF-8 encoder will write.
Surrogate == "\\ud800"

\* s.encode("utf-8") succeeds.
Utf8Encodable(chars) == Surrogate \notin Range(chars)

\* The request bodies: what the bytes are to json.loads.
EmptyBody == [raw |-> "empty"]
MalformedBody == [raw |-> "malformed"]
JsonBody(v) == [raw |-> "json", value |-> v]

\* The x-api-key header of a request.
NoHeader == [present |-> FALSE]
HeaderValue(chars) == [present |-> TRUE, value |-> chars]

\* The locals of universal_handler at lines 102-104.
DefaultLocals ==
  [message |-> <<>>, conversation_id |-> JNull, status_text |-> "tester_ok"]

\* Faulty variant: a blank string counts as a message.
WithMessageAnyString(locals, msg) ==
  IF IsStr(msg)
    THEN [locals EXCEPT !.message = msg.chars, !.status_text = "analysis_complete"]
    ELSE locals

\* Lines 115-117: message and status_text after looking at body["message"].
WithMessage(locals, msg) ==
  IF IsStr(msg) /\ ~StripIsEmpty(msg.chars)
    THEN [locals EXCEPT !.message = msg.chars, !.status_text = "analysis_complete"]
    ELSE locals

\* Lines 119-121: conversation_id after looking at body["conversation_id"].
WithConversationId(locals, cid) ==
  IF IsStr(cid) THEN [locals EXCEPT !.conversation_id = cid] ELSE locals

\* Lines 108-125: the locals after body = await request.json().  json.loads
\* raises on an empty or malformed body, and the except clause keeps the
\* defaults.
AfterBody(locals, body) ==
  IF body.raw # "json" THEN locals
  ELSE IF IsDict(body.value)
    THEN WithConversationId(WithMessage(locals, DictGet(body.value, "message")),
                            DictGet(body.value, "conversation_id"))
  ELSE locals

\* Faulty variant: turns counts the requests the process has answered.
TurnsCounted(s) == 1 + Cardinality({q \in DOMAIN req : q # s /\ req[q].pc = "done"})

\* turns=1 of the response, for the request in slot s.
Turns(s) == 1

\* Lines 128-143: the HoneypotResponse the handler returns for slot s.
HoneypotResponse(s, locals) ==
  LET extracted == extract_intelligence(locals.message)
      scored    == analyze_scam_intent(locals.message, extracted)
  IN  [is_scam           |-> scored.is_scam,
       conversation_id   |-> locals.conversation_id,
       engagement_active |-> TRUE,
       turns             |-> Turns(s),
       extracted_data    |-> extracted,
       confidence        |-> scored.confidence,
       status            |-> locals.status_text]

\* The route's JSON response: the returned model rendered as UTF-8 JSON.  A
\* string that cannot be encoded makes the rendering raise, and the server
\* answers 500.  Of the strings of the model only conversation_id can hold
\* such a character: the patterns of the extractor match none.
Render(model) ==
  IF IsStr(model.conversation_id) /\ ~Utf8Encodable(model.conversation_id.chars)
    THEN [status_code |-> 500, detail |-> "Internal Server Error"]
    ELSE [status_code |-> 200, body |-> model]

\* The dependency of line 30: x_api_key = Header(..., alias="x-api-key") is a
\* required header, so a request without it is rejected with 422 before the
\* body of validate_api_key runs; lines 32-36 answer 401 to a wrong value.
validate_api_key(header) ==
  IF ~header.present THEN [status_code |-> 422, detail |-> "Field required"]
  ELSE IF header.value # API_KEY_VALUE
    THEN [status_code |-> 401, detail |-> "Invalid or missing API Key"]
  ELSE [status_code |-> 0]

NoResponse == [status_code |-> 0]

\* What has been done for a request: request.json() awaited,
\* extract_intelligence called, analyze_scam_intent called.
NoTrace == [parsed |-> FALSE, extracted |-> FALSE, scored |-> FALSE]

\* ---- the requests the model sends

NumSlots == 2

Slots == 1..NumSlots

\* The methods the two routes are registered for (lines 148-149).
Methods == {"GET", "POST"}

WrongKey == <<"w", "r", "o", "n", "g">>

Headers == {NoHeader, HeaderValue(WrongKey), HeaderValue(API_KEY_VALUE)}

BlankMessage == <<" ", "\t">>

\* "urgent kyc ab@cd 123456789"
ScamMessage ==
  <<"u", "r", "g", "e", "n", "t", " ", "k", "y", "c", " ", "a", "b", "@", "c", "d",
    " ", "1", "2", "3", "4", "5", "6", "7", "8", "9">>

MessageValues == {JNumber, JString(BlankMessage), JString(ScamMessage)}

CidValues == {JString(<<"c", "1">>), JString(<<Surrogate>>)}

\* A JSON object with the given message and conversation_id.
ObjectWith(msg, cid) == JObject([message |-> msg, conversation_id |-> cid])

\* A JSON object with neither field.
EmptyObject == JObject(<<>>)

ScamBody == JsonBody(ObjectWith(JString(ScamMessage), JString(<<"c", "1">>)))

Bodies ==
  {EmptyBody, MalformedBody, JsonBody(JArray), JsonBody(EmptyObject)} \cup
  {JsonBody(ObjectWith(msg, cid)) : msg \in MessageValues, cid \in CidValues}

ValidHeader == HeaderValue(API_KEY_VALUE)

\* The requests sent.  A POST with the valid key is sent with every body.  A
\* GET and a request whose key is rejected are answered without a look at the
\* body (lines 107, 30-37): a GET is sent with no body and with a message, a
\* rejected request with a message.
Requests ==
  [method : {"POST"}, header : {ValidHeader}, body : Bodies] \cup
  [method : {"GET"}, header : {ValidHeader}, body : {EmptyBody, ScamBody}] \cup
  [method : Methods, header : Headers \ {ValidHeader}, body : {ScamBody}]

IdleSlot ==
  [pc |-> "idle", method |-> "GET", header |-> NoHeader, body |-> EmptyBody,
   locals |-> DefaultLocals, trace |-> NoTrace, response |-> NoResponse]

\* ---- the scorer's and the extractor's calls, idle while the service runs

NoEntities == [upi_ids |-> {}, bank_accounts |-> {}, phishing_links |-> {}]

NoScore == [is_scam |-> FALSE, confidence |-> 0]

CallsIdle ==
  /\ text = <<>> /\ extracted_data = NoEntities /\ keyword_hits = 0
  /\ result = NoScore /\ ex_text = <<>> /\ ex_result = NoEntities

callVars == <<text, extracted_data, keyword_hits, result, ex_text, ex_result>>

\* ---- the service's steps

\* A request arrives on a free connection slot.
Receive(s) ==
  /\ pc = "serve"
  /\ req[s].pc \in {"idle", "done"}
  /\ \E r \in Requests :
       req' = [req EXCEPT ![s] =
                 [pc |-> "auth", method |-> r.method, header |-> r.header,
                  body |-> r.body, locals |-> DefaultLocals, trace |-> NoTrace,
                  response |-> NoResponse]]
  /\ UNCHANGED <<pc, callVars>>

\* The dependency validate_api_key is resolved: the request is rejected, or
\* passed on to universal_handler.
ValidateApiKey(s) ==
  /\ pc = "serve"
  /\ req[s].pc = "auth"
  /\ LET r == validate_api_key(req[s].header)
     IN  req' = [req EXCEPT ![s] =
                   IF r.status_code # 0
                     THEN [@ EXCEPT !.pc = "done", !.response = r]
                     ELSE [@ EXCEPT !.pc = "handler"]]
  /\ UNCHANGED <<pc, callVars>>

\* Lines 128-143 and the rendering of the response, for slot s.
Finish(s, locals) ==
  [req[s] EXCEPT !.pc = "done",
                 !.locals = locals,
                 !.trace.extracted = TRUE,
                 !.trace.scored = TRUE,
                 !.response = Render(HoneypotResponse(s, locals))]

\* universal_handler up to its only await: a POST suspends in
\* request.json(); any other method runs to the end.
HandlerStart(s) ==
  /\ pc = "serve"
  /\ req[s].pc = "handler"
  /\ req' = [req EXCEPT ![s] =
               IF req[s].method = "POST"
                 THEN [@ EXCEPT !.pc = "await_json", !.trace.parsed = TRUE]
                 ELSE Finish(s, DefaultLocals)]
  /\ UNCHANGED <<pc, callVars>>

\* universal_handler from the return of request.json() to its end.
JsonResume(s) ==
  /\ pc = "serve"
  /\ req[s].pc = "await_json"
  /\ req' = [req EXCEPT ![s] = Finish(s, AfterBody(req[s].locals, req[s].body))]
  /\ UNCHANGED <<pc, callVars>>

Init ==
  /\ pc = "serve"
  /\ req = [s \in Slots |-> IdleSlot]
  /\ CallsIdle

Next ==
  \E s \in Slots :
    \/ Receive(s)
    \/ ValidateApiKey(s)
    \/ HandlerStart(s)
    \/ JsonResume(s)

Spec == Init /\ [][Next]_vars

ServiceIdle == req = [s \in Slots |-> IdleSlot]

\* ------------------------------------------------ calls of the scorer

\* The longest list passed in a field of extracted_data.
MaxItems == 1

SampleUpiIds ==
  {<<"a", "b", "@", "c", "d">>, <<"x", ".", "y", "@", "b", "a", "n", "k">>}

SampleBankAccounts ==
  {<<"1", "2", "3", "4", "5", "6", "7", "8", "9">>,
   <<"9", "8", "7", "6", "5", "4", "3", "2", "1", "0", "1", "2", "3">>}

SampleLinks ==
  {<<"h", "t", "t", "p", ":", "/", "/", "a", ".", "b">>,
   <<"h", "t", "t", "p", "s", ":", "/", "/", "x", ".", "y", "/", "z">>}

UpTo(pool) == {S \in SUBSET pool : Cardinality(S) <= MaxItems}

EntityRecords ==
  [upi_ids : UpTo(SampleUpiIds), bank_accounts : UpTo(SampleBankAccounts),
   phishing_links : UpTo(SampleLinks)]

\* The keywords i..j of the list, separated by single spaces.
RECURSIVE JoinKeywords(_, _)
JoinKeywords(i, j) ==
  IF i > j THEN <<>>
  ELSE IF i = j THEN scam_keywords[i]
  ELSE scam_keywords[i] \o <<" ">> \o JoinKeywords(i + 1, j)

SampleTexts ==
  { <<>>,
    <<" ">>,
    <<" ", "\t", "\n">>,
    <<"h", "e", "l", "l", "o", " ">>,
    <<"w", "o", "n", "d", "e", "r", " ">>,
    <<"U", "R", "G", "E", "N", "T", " ">>,
    <<"u", "r", "g", "e", "n", "t", " ", "u", "r", "g", "e", "n", "t", " ">>,
    <<"c", "l", "i", "c", "k", " ", " ", "h", "e", "r", "e", " ">>,
    <<"A", "c", "t", " ", "N", "o", "w", " ">> }

\* The texts scored: runs of the keyword list, and a sample followed by the
\* first j keywords.
ScoreTexts ==
  {JoinKeywords(i, j) : i, j \in 1..Len(scam_keywords)} \cup
  {p \o JoinKeywords(1, j) : p \in SampleTexts, j \in 0..Len(scam_keywords)}

InitScore ==
  /\ pc = "score_call"
  /\ ServiceIdle
  /\ text \in ScoreTexts
  /\ extracted_data \in EntityRecords
  /\ keyword_hits = 0
  /\ result = NoScore
  /\ ex_text = <<>>
  /\ ex_result = NoEntities

\* One call analyze_scam_intent(text, extracted_data), entry to return.
AnalyzeScamIntent ==
  /\ pc = "score_call"
  /\ pc' = "score_done"
  /\ result' = analyze_scam_intent(text, extracted_data)
  /\ keyword_hits' = IF IsBlank(text) THEN keyword_hits ELSE KeywordHits(text)
  /\ UNCHANGED <<req, text, extracted_data, ex_text, ex_result>>

NextScore == AnalyzeScamIntent

SpecScore == InitScore /\ [][NextScore]_vars

\* --------------------------------------------- calls of the extractor

\* The longest digit run in a text handed to the extractor.
MaxRun == 20

DigitCycle == <<"1", "2", "3", "4", "5", "6", "7", "8", "9", "0">>

\* A run of n digits: 1234567890123...
DigitRun(n) == [i \in 1..n |-> DigitCycle[((i - 1) % 10) + 1]]

\* What stands before, between and after the digit runs of a text.
Edges == {<<>>, <<"a">>, <<"_">>, <<" ">>}
Middles == {<<>>, <<" ">>, <<"_">>, <<"x">>, <<",">>}

ExtractTexts ==
  {a \o DigitRun(m) \o b \o DigitRun(n) \o c :
     a \in Edges, m \in 0..MaxRun, b \in Middles, n \in 0..MaxRun, c \in Edges}

InitExtract ==
  /\ pc = "extract_call"
  /\ ServiceIdle
  /\ text = <<>> /\ extracted_data = NoEntities /\ keyword_hits = 0 /\ result = NoScore
  /\ ex_text \in ExtractTexts
  /\ ex_result = NoEntities

\* One call extract_intelligence(text), entry to return.
ExtractIntelligence ==
  /\ pc = "extract_call"
  /\ pc' = "extract_done"
  /\ ex_result' = extract_intelligence(ex_text)
  /\ UNCHANGED <<req, text, extracted_data, keyword_hits, result, ex_text>>

NextExtract == ExtractIntelligence

SpecExtract == InitExtract /\ [][NextExtract]_vars

\* ================================================================ claims

\* Every character of t is whitespace (the empty text included).
Blank(t) == \A i \in DOMAIN t : t[i] \in {" ", "\t", "\n", "\r"}

ScoreDone == pc = "score_done"

HasLinks == extracted_data.phishing_links # {}

HasPayment == extracted_data.upi_ids # {} \/ extracted_data.bank_accounts # {}

\* ---- C3

\* C3: for every text and every extracted_data, the confidence returned by
\* analyze_scam_intent lies in [0.0, 1.0], and is_scam is true exactly when
\* the returned confidence is strictly greater than 0.4.
C3_VerdictMatchesConfidence ==
  ScoreDone =>
    /\ result.confidence \in 0..100
    /\ result.is_scam <=> result.confidence > 40

\* A text that is not blank scored at exactly 0.4, and not a scam.
C3_Witness ==
  /\ ScoreDone
  /\ ~Blank(text)
  /\ result.confidence = 40
  /\ ~result.is_scam

\* ---- C4

Min(a, b) == IF a < b THEN a ELSE b

\* The claim's K + L + P, in hundredths.
ClaimedScore(h) ==
  (IF h > 0 THEN 30 + 10 * Min(h, 5) ELSE 0)
  + (IF HasLinks THEN 40 ELSE 0)
  + (IF HasPayment THEN 30 ELSE 0)

\* C4: for every non-blank text with h keyword hits, the confidence returned
\* is min(1.0, K + L + P) with K = 0.3 + 0.1*min(h,5) if h > 0 else 0, L = 0.4
\* if phishing_links is non-empty, P = 0.3 if upi_ids or bank_accounts is
\* non-empty (once); 5 or more hits and no entities give 0.8, no hits and no
\* entities 0.0.
C4_ConfidenceFormula ==
  (ScoreDone /\ ~Blank(text)) =>
    /\ result.confidence = Min(100, ClaimedScore(keyword_hits))
    /\ (keyword_hits >= 5 /\ ~HasLinks /\ ~HasPayment) => result.confidence = 80
    /\ (keyword_hits = 0 /\ ~HasLinks /\ ~HasPayment) => result.confidence = 0

\* More than five hits, both payment lists filled, no link: 0.8 + 0.3 capped.
C4_Witness ==
  /\ ScoreDone
  /\ keyword_hits > 5
  /\ extracted_data.upi_ids # {}
  /\ extracted_data.bank_accounts # {}
  /\ ~HasLinks
  /\ result.confidence = 100

\* ---- C5

\* C5: for an empty or whitespace-only text analyze_scam_intent returns
\* (False, 0.0) whatever extracted_data holds.
C5_BlankShortCircuit ==
  (ScoreDone /\ Blank(text)) => result = [is_scam |-> FALSE, confidence |-> 0]

\* A whitespace-only text scored with links and payment handles present.
C5_Witness ==
  /\ ScoreDone
  /\ text # <<>>
  /\ Blank(text)
  /\ HasLinks
  /\ HasPayment
  /\ result = [is_scam |-> FALSE, confidence |-> 0]

\* ---- C9

\* The entries of the keyword list that occur in the lower-cased text.
EntriesPresent ==
  {k \in DOMAIN scam_keywords : Contains(scam_keywords[k], StrLower(text))}

\* C9 as stated: keyword_hits is the number of entries of the keyword list
\* that occur in the lower-cased text, each counted once, and the list has 22
\* entries, so that the count lies in 0..22.
C9_AsStated ==
  (ScoreDone /\ ~Blank(text)) =>
    /\ keyword_hits = Cardinality(EntriesPresent)
    /\ keyword_hits \in 0..22

\* C9: keyword_hits is the number of entries of the keyword list that occur
\* as substrings of the lower-cased text, each entry counted once however
\* often it occurs; the list has 23 entries and the count lies in 0..23.
C9_KeywordCount ==
  (ScoreDone /\ ~Blank(text)) =>
    /\ keyword_hits = Cardinality(EntriesPresent)
    /\ Len(scam_keywords) = 23
    /\ keyword_hits \in 0..23

\* A text in which every entry of the list occurs.
C9_Witness ==
  /\ ScoreDone
  /\ ~Blank(text)
  /\ keyword_hits = 23

\* ---- C10

\* The indicators of the claim: one per keyword hit, one for links, one for
\* payment handles or bank accounts.
Indicators ==
  keyword_hits + (IF HasLinks THEN 1 ELSE 0) + (IF HasPayment THEN 1 ELSE 0)

\* C10: for every non-blank text, is_scam is true exactly when at least two
\* indicators are present; one keyword alone, a link alone, or payment
\* handles or bank accounts alone never give is_scam.
C10_TwoIndicators ==
  (ScoreDone /\ ~Blank(text)) => (result.is_scam <=> Indicators >= 2)

\* Both payment lists filled and nothing else: one indicator, not a scam.
C10_Witness ==
  /\ ScoreDone
  /\ ~Blank(text)
  /\ keyword_hits = 0
  /\ ~HasLinks
  /\ extracted_data.upi_ids # {}
  /\ extracted_data.bank_accounts # {}
  /\ ~result.is_scam

\* ---- C6

ExtractDone == pc = "extract_done"

\* The maximal runs of decimal digits of t, as <<first, last>>.
MaximalDigitRuns(t) ==
  {<<i, i + RunLen(t, i, Digits, Len(t)) - 1>> :
     i \in {j \in DOMAIN t : t[j] \in Digits /\ CharAt(t, j - 1) \notin Digits}}

\* The maximal digit runs of 9 to 18 digits with no character of `barred`
\* next to them.
IsolatedRuns(t, barred) ==
  {SubSeq(t, r[1], r[2]) :
     r \in {q \in MaximalDigitRuns(t) :
              /\ q[2] - q[1] + 1 \in 9..18
              /\ CharAt(t, q[1] - 1) \notin barred
              /\ CharAt(t, q[2] + 1) \notin barred}}

\* C6 as stated: the bank accounts are exactly the maximal digit runs of 9
\* to 18 digits that have no alphanumeric character next to them.
C6_AsStated ==
  ExtractDone => ex_result.bank_accounts = IsolatedRuns(ex_text, Alpha \cup Digits)

\* C6: the bank accounts are exactly the maximal digit runs of 9 to 18
\* digits that have no word character (alphanumeric or underscore) next to
\* them; shorter runs are not extracted, and of a longer run no part is.
C6_BankAccounts ==
  ExtractDone =>
    ex_result.bank_accounts = IsolatedRuns(ex_text, Alpha \cup Digits \cup {"_"})

\* A run of 9 to 18 digits next to an underscore is left out while another
\* run of the same text is extracted.
C6_Witness ==
  /\ ExtractDone
  /\ ex_result.bank_accounts # {}
  /\ \E r \in MaximalDigitRuns(ex_text) :
       /\ r[2] - r[1] + 1 \in 9..18
       /\ "_" \in {CharAt(ex_text, r[1] - 1), CharAt(ex_text, r[2] + 1)}
       /\ SubSeq(ex_text, r[1], r[2]) \notin ex_result.bank_accounts

\* ---- the service

Done(s) == req[s].pc = "done"

SameRequest(s, q) ==
  /\ req[s].method = req[q].method
  /\ req[s].header = req[q].header
  /\ req[s].body = req[q].body

\* The request is a POST whose body is a JSON object with a string message
\* that is not blank.
UsableMessage(r) ==
  /\ r.method = "POST"
  /\ r.body.raw = "json"
  /\ r.body.value.type = "object"
  /\ "message" \in DOMAIN r.body.value.fields
  /\ r.body.value.fields["message"].type = "string"
  /\ ~Blank(r.body.value.fields["message"].chars)

\* ---- C1

\* C1 as stated: a request whose x-api-key header is absent or differs from
\* the shared secret is answered 401, and for it the body is not parsed and
\* neither extract_intelligence nor analyze_scam_intent is run.
C1_AsStated ==
  \A s \in Slots :
    (Done(s) /\ req[s].header # ValidHeader) =>
      /\ req[s].response.status_code = 401
      /\ req[s].trace = NoTrace

\* ---- C2

\* C2 as stated: a request with the valid shared secret is answered 200 with
\* a full response whatever its method and body; without a usable message
\* the response has is_scam false, confidence 0.0 and no extracted entities.
C2_AsStated ==
  \A s \in Slots :
    (Done(s) /\ req[s].header = ValidHeader) =>
      /\ req[s].response.status_code = 200
      /\ ~UsableMessage(req[s]) =>
           /\ req[s].response.body.is_scam = FALSE
           /\ req[s].response.body.confidence = 0
           /\ req[s].response.body.extracted_data = NoEntities

\* ---- C7

\* C7: the response to a request depends on that request alone: two requests
\* with the same method, header and body get the same response, whatever
\* other requests were served before, between or beside them.
C7_RequestsIndependent ==
  \A s, q \in Slots :
    (Done(s) /\ Done(q) /\ SameRequest(s, q)) => req[s].response = req[q].response

\* Two slots have answered the same message-bearing POST.
C7_Witness ==
  \E s, q \in Slots :
    /\ s # q
    /\ Done(s) /\ Done(q)
    /\ SameRequest(s, q)
    /\ UsableMessage(req[s])
    /\ req[s].header = ValidHeader
    /\ req[s].response.status_code = 200
    /\ req[s].response.body.is_scam

\* ---- C8

\* C8: the status the handler returns is "analysis_complete" exactly when the
\* request was a POST whose body is a JSON object with a non-blank string
\* message, which was then extracted and scored, and "tester_ok" in every
\* other case, every GET included; a 200 response carries that status.
C8_StatusTag ==
  \A s \in Slots :
    (Done(s) /\ req[s].header = ValidHeader) =>
      /\ req[s].trace.extracted /\ req[s].trace.scored
      /\ req[s].locals.status_text \in {"analysis_complete", "tester_ok"}
      /\ req[s].locals.status_text = "analysis_complete" <=> UsableMessage(req[s])
      /\ UsableMessage(req[s]) => req[s].locals.message # <<>>
      /\ req[s].response.status_code = 200 =>
           req[s].response.body.status = req[s].locals.status_text

\* A GET carrying a message answered "tester_ok" beside a POST of the same
\* body answered "analysis_complete".
C8_Witness ==
  \E s, q \in Slots :
    /\ Done(s) /\ Done(q)
    /\ req[s].header = ValidHeader /\ req[q].header = ValidHeader
    /\ req[s].method = "GET" /\ req[q].method = "POST"
    /\ req[s].body = ScamBody /\ req[q].body = ScamBody
    /\ req[s].response.status_code = 200 /\ req[q].response.status_code = 200
    /\ req[s].response.body.status = "tester_ok"
    /\ req[q].response.body.status = "analysis_complete"

====
